---- MODULE Spec2Model ----
(***************************************************************************)
(* The digital-rain engine of src/main.rs: MatrixRain (new, populate_      *)
(* streams, spawn_stream, tick, resize) and its Widget::render.            *)
(*                                                                         *)
(* Reals are kept in tenths: head_y and speed are integers counting 0.1    *)
(* cells (the code draws speed as k/10 for k in 3..=12).  Every call of    *)
(* the random generator is a choice from the range the code passes to      *)
(* random_range; a specification enumerates a subset of each range, given  *)
(* by its draw profile.  random_range panics on an empty range; a panic    *)
(* ends the program and is the state pc = "panicked".                      *)
(***************************************************************************)
EXTENDS Integers, Sequences, FiniteSets, TLC

VARIABLES
  pc,             \* "uninit" before MatrixRain::new, "running", "panicked"
  streams,        \* MatrixRain.streams: Vec<Stream>
  width,          \* MatrixRain.width
  height,         \* MatrixRain.height
  tick,           \* MatrixRain.tick
  flash_message,  \* MatrixRain.flash_message: <<>> is None, <<f>> is Some(f)
  written,        \* the cell writes of the latest call, in order (render only)
  last            \* history: what the latest call was and what it removed

vars == <<pc, streams, width, height, tick, flash_message, written, last>>

\* The fields of MatrixRain: the simulation state.
rain == <<streams, width, height, tick, flash_message>>

(***************************************************************************)
(* Static data                                                             *)
(***************************************************************************)

\* The glyph palette; a glyph outside ASCII is written as its code point.
MATRIX_CHARS ==
  << "U+FF66", "U+FF67", "U+FF68", "U+FF69", "U+FF6A", "U+FF6B", "U+FF6C", "U+FF6D",
     "U+FF6E", "U+FF6F", "U+FF70", "U+FF71", "U+FF72", "U+FF73", "U+FF74", "U+FF75",
     "U+FF76", "U+FF77", "U+FF78", "U+FF79", "U+FF7A", "U+FF7B", "U+FF7C", "U+FF7D",
     "U+FF7E", "U+FF7F", "U+FF80", "U+FF81", "U+FF82", "U+FF83", "U+FF84", "U+FF85",
     "U+FF86", "U+FF87", "U+FF88", "U+FF89", "U+FF8A", "U+FF8B", "U+FF8C", "U+FF8D",
     "U+FF8E", "U+FF8F", "U+FF90", "U+FF91", "U+FF92", "U+FF93", "U+FF94", "U+FF95",
     "U+FF96", "U+FF97", "U+FF98", "U+FF99", "U+FF9A", "U+FF9B", "U+FF9C", "U+FF9D",
     "0", "1", "2", "3", "4", "5", "6", "7",
     "8", "9", ":", ".", "\"", "=", "*", "+",
     "-", "<", ">", "|", "U+00A6", "U+254C", "U+250A", "U+221E",
     "U+2261", "U+00B1", "U+2213", "U+2234", "U+2235", "U+2295" >>

\* The phrase table, each phrase as its sequence of bytes.
EASTER_EGGS ==
  << << "W", "A", "K", "E", " ", "U", "P", " ", "N", "E", "O" >>,
     << "F", "O", "L", "L", "O", "W", " ", "T", "H", "E", " ", "W", "H", "I", "T", "E", " ", "R", "A", "B", "B", "I", "T" >>,
     << "T", "H", "E", "R", "E", " ", "I", "S", " ", "N", "O", " ", "S", "P", "O", "O", "N" >>,
     << "T", "H", "E", " ", "O", "N", "E" >>,
     << "K", "N", "O", "C", "K", " ", "K", "N", "O", "C", "K" >>,
     << "F", "R", "E", "E", " ", "Y", "O", "U", "R", " ", "M", "I", "N", "D" >>,
     << "R", "E", "D", " ", "P", "I", "L", "L" >>,
     << "B", "L", "U", "E", " ", "P", "I", "L", "L" >>,
     << "M", "O", "R", "P", "H", "E", "U", "S" >>,
     << "T", "R", "I", "N", "I", "T", "Y" >>,
     << "Z", "I", "O", "N" >>,
     << "W", "H", "O", "A" >>,
     << "I", " ", "K", "N", "O", "W", " ", "K", "U", "N", "G", " ", "F", "U" >>,
     << "D", "E", "J", "A", " ", "V", "U" >>,
     << "R", "A", "B", "B", "I", "T", " ", "H", "O", "L", "E" >>,
     << "M", "R", " ", "A", "N", "D", "E", "R", "S", "O", "N" >>,
     << "T", "H", "E", " ", "M", "A", "T", "R", "I", "X", " ", "H", "A", "S", " ", "Y", "O", "U" >>,
     << "C", "H", "O", "I", "C", "E", " ", "I", "S", " ", "A", "N", " ", "I", "L", "L", "U", "S", "I", "O", "N" >>,
     << "N", "O", "T", " ", "L", "I", "K", "E", " ", "T", "H", "I", "S" >>,
     << "D", "O", "D", "G", "E", " ", "T", "H", "I", "S" >>,
     << "G", "U", "N", "S", " ", "L", "O", "T", "S", " ", "O", "F", " ", "G", "U", "N", "S" >>,
     << "W", "E", "L", "C", "O", "M", "E", " ", "T", "O", " ", "T", "H", "E", " ", "D", "E", "S", "E", "R", "T", " ", "O", "F", " ", "T", "H", "E", " ", "R", "E", "A", "L" >>,
     << "W", "H", "A", "T", " ", "I", "S", " ", "R", "E", "A", "L" >>,
     << "B", "E", "L", "I", "E", "V", "E" >>,
     << "S", "Y", "S", "T", "E", "M", " ", "F", "A", "I", "L", "U", "R", "E" >>,
     << "H", "E", " ", "I", "S", " ", "T", "H", "E", " ", "O", "N", "E" >>,
     << "D", "O", " ", "N", "O", "T", " ", "T", "R", "Y", " ", "T", "O", " ", "B", "E", "N", "D", " ", "T", "H", "E", " ", "S", "P", "O", "O", "N" >>,
     << "T", "H", "E", "R", "E", " ", "I", "S", " ", "N", "O", " ", "S", "P", "O", "O", "N", " ", "O", "N", "L", "Y", " ", "Z", "U", "U", "L" >>,
     << "T", "A", "K", "E", " ", "T", "H", "E", " ", "R", "E", "D", " ", "P", "I", "L", "L" >>,
     << "W", "E", "R", "E", " ", "Y", "O", "U", " ", "L", "I", "S", "T", "E", "N", "I", "N", "G", " ", "O", "R", " ", "L", "O", "O", "K", "I", "N", "G", " ", "A", "T", " ", "T", "H", "E", " ", "W", "O", "M", "A", "N", " ", "I", "N", " ", "T", "H", "E", " ", "R", "E", "D", " ", "D", "R", "E", "S", "S" >>,
     << "I", "M", " ", "G", "O", "I", "N", "G", " ", "T", "O", " ", "S", "H", "O", "W", " ", "T", "H", "E", "M", " ", "A", " ", "W", "O", "R", "L", "D", " ", "W", "I", "T", "H", "O", "U", "T", " ", "R", "U", "L", "E", "S" >>,
     << "4", "2" >>,
     << "H", "E", "L", "L", "O", " ", "W", "O", "R", "L", "D" >>,
     << "C", "O", "G", "I", "T", "O", " ", "E", "R", "G", "O", " ", "S", "U", "M" >>,
     << "W", "H", "Y", " ", "D", "O", " ", "M", "Y", " ", "E", "Y", "E", "S", " ", "H", "U", "R", "T" >>,
     << "B", "E", "C", "A", "U", "S", "E", " ", "Y", "O", "U", "V", "E", " ", "N", "E", "V", "E", "R", " ", "U", "S", "E", "D", " ", "T", "H", "E", "M", " ", "B", "E", "F", "O", "R", "E" >>,
     << "T", "H", "E", " ", "C", "A", "K", "E", " ", "I", "S", " ", "A", " ", "L", "I", "E" >> >>

(***************************************************************************)
(* Bounds of the model                                                     *)
(***************************************************************************)

\* Longest run of ticks explored by Spec, by SpecFlash, by SpecFall, by
\* SpecPaint and SpecClip, by SpecMove, by SpecEgg and by SpecFade.
MaxTick == 3
MaxTickFlash == 31
MaxTickFall == 16
MaxTickPaint == 2

MaxTickMove == 9
MaxTickEgg == 16
MaxTickFade == 41

\* Most streams alive at once (the Vec is unbounded in the code); the
\* second bound is that of SpecPaint and SpecClip.
MaxStreams == 2
MaxStreamsPaint == 1

(***************************************************************************)
(* Arithmetic helpers                                                      *)
(***************************************************************************)

Min(a, b) == IF a < b THEN a ELSE b

Max(a, b) == IF a > b THEN a ELSE b

\* u16::saturating_sub
SatSub(a, b) == IF a > b THEN a - b ELSE 0

\* height.max(8).min(40): the largest trail length for a grid of height h.
Clamp(h) == Min(Max(h, 8), 40)

\* `head_y as i32`: a float-to-int cast truncates toward zero.
TruncToInt(tenths) ==
  IF tenths >= 0 THEN tenths \div 10 ELSE -((-tenths) \div 10)

\* v[i] of a Vec or slice: indices count from 0.
At(v, i) == v[i + 1]

\* v[i] = x
SetAt(v, i, x) == [v EXCEPT ![i + 1] = x]

(***************************************************************************)
(* Random draws.  A profile D names, for each call of random_range, the    *)
(* values a specification enumerates; every draw set is the code's range   *)
(* cut down to them.                                                       *)
(***************************************************************************)

\* rng.random_range(lo..hi): the integers lo..hi-1 among the allowed ones.
Draw(lo, hi, allowed) == (lo..(hi - 1)) \cap allowed

\* random_range panics when its range is empty.
EmptyRange(lo, hi) == ~(lo < hi)

\* random_range(4..=self.height.max(8).min(40))
LengthDraws(h, D) == (4..Clamp(h)) \cap D.lens

\* random_range(3..=12) as f64 / 10.0, in tenths
SpeedDraws(D) == (3..12) \cap D.speeds

\* random_range(-(self.height as f64)..self.height as f64), in tenths
HeadDraws(h, D) == ((-10 * h)..(10 * h - 1)) \cap D.heads

\* MATRIX_CHARS[rng.random_range(0..MATRIX_CHARS.len())]
GlyphDraws(allowed) ==
  {At(MATRIX_CHARS, g) : g \in Draw(0, Len(MATRIX_CHARS), allowed)}

\* Mutant of FillDraws: the buffer has no slack, its length is n - 10.
FillDrawsNoSlack(n, D) == {[i \in 1..(n - 10) |-> g] : g \in GlyphDraws(D.glyphs)}

\* The trail buffer of length n; the fills enumerated repeat one drawn glyph.
FillDraws(n, D) == {[i \in 1..n |-> g] : g \in GlyphDraws(D.glyphs)}

\* The outcomes of the test rng.random_range(0..100) < percent
Chance(percent, D) == {r < percent : r \in Draw(0, 100, D.pct)}

\* random_range(0..100) < 3, then EASTER_EGGS[random_range(0..EASTER_EGGS.len())]
EggDraws(D) ==
  (IF FALSE \in Chance(3, D) THEN {<<>>} ELSE {}) \cup
  (IF TRUE \in Chance(3, D)
     THEN {<<[word |-> At(EASTER_EGGS, e), char_index |-> 0]>> :
             e \in Draw(0, Len(EASTER_EGGS), D.eggs)}
     ELSE {})

\* random_range(3..15)
MutateDraws(D) == Draw(3, 15, D.mutates)

(***************************************************************************)
(* MatrixRain::spawn_stream                                                *)
(***************************************************************************)

\* The head draw of a random start is taken from -(height)..height, which
\* is empty when height = 0.
SpawnPanics(random_start, h) == random_start /\ EmptyRange(-h, h)


\* Mutant of SpawnStream: a stream that does not start at random starts a
\* whole buffer length (length + 10) above the grid.
SpawnStreamAboveBuffer(col, random_start, h, D) ==
  UNION {
    {[col |-> col,
      head_y |-> hd,
      speed |-> sp,
      length |-> len,
      chars |-> cs,
      active |-> TRUE,
      easter_egg |-> egg,
      mutate_counter |-> mc,
      zeroAt |-> -1] :
        sp \in SpeedDraws(D),
        hd \in IF random_start THEN HeadDraws(h, D) ELSE {-(10 * (len + 10))},
        cs \in FillDraws(len + 10, D),
        egg \in EggDraws(D),
        mc \in MutateDraws(D)} :
    len \in LengthDraws(h, D)}

\* The streams spawn_stream(col, random_start) can push.  zeroAt is history:
\* the tick at which head_y was 0 with no resize since, or -1.
SpawnStream(col, random_start, h, D) ==
  UNION {
    {[col |-> col,
      head_y |-> hd,
      speed |-> sp,
      length |-> len,
      chars |-> cs,
      active |-> TRUE,
      easter_egg |-> egg,
      mutate_counter |-> mc,
      zeroAt |-> -1] :
        sp \in SpeedDraws(D),
        hd \in IF random_start THEN HeadDraws(h, D) ELSE {-(10 * len)},
        cs \in FillDraws(len + 10, D),
        egg \in EggDraws(D),
        mc \in MutateDraws(D)} :
    len \in LengthDraws(h, D)}

\* History: stamp the tick t on a stream whose head is at 0; a resize
\* (keep = FALSE) forgets an older stamp.
Mark(s, t, keep) ==
  [s EXCEPT !.zeroAt = IF s.head_y = 0 THEN t ELSE IF keep THEN @ ELSE -1]

(***************************************************************************)
(* MatrixRain::populate_streams and the respawn loop of tick               *)
(***************************************************************************)

\* Mutant of ColHasStream: no column is marked as holding a stream.
ColHasStreamUnmarked(ss, w) ==
  [c \in 0..(w - 1) |-> FALSE]

\* col_has_stream, as computed before the loop over the columns
ColHasStream(ss, w) ==
  [c \in 0..(w - 1) |-> \E i \in 1..Len(ss) : ss[i].col = c]

\* for col in col..w: an empty column gets a stream when the percent draw
\* is below chance.  The spawn of a random start panics at height 0, before
\* it pushes.  A full Vec (D.cap) takes no further hit.
RECURSIVE FillColumns(_, _, _, _, _, _, _, _, _)
FillColumns(col, has, ss, w, h, t, random_start, chance, D) ==
  IF col >= w THEN {[streams |-> ss, ok |-> TRUE]}
  ELSE LET next == FillColumns(col + 1, has, ss, w, h, t, random_start, chance, D)
           miss == IF FALSE \in Chance(chance, D) THEN next ELSE {}
           hit == IF TRUE \notin Chance(chance, D) \/ Len(ss) >= D.cap THEN {}
                  ELSE IF SpawnPanics(random_start, h)
                         THEN {[streams |-> ss, ok |-> FALSE]}
                  ELSE UNION {
                         FillColumns(col + 1, has, Append(ss, Mark(n, t, FALSE)),
                                     w, h, t, random_start, chance, D) :
                         n \in SpawnStream(col, random_start, h, D)}
       IN IF has[col] THEN next ELSE miss \cup hit

\* populate_streams: 70% per empty column, random start
PopulateStreams(ss, w, h, t, D) ==
  FillColumns(0, ColHasStream(ss, w), ss, w, h, t, TRUE, 70, D)

\* tick, "Respawn streams on columns that have no active stream": 15% per
\* empty column, start above the grid
Respawn(ss, w, h, t, D) ==
  FillColumns(0, ColHasStream(ss, w), ss, w, h, t, FALSE, 15, D)

(***************************************************************************)
(* MatrixRain::tick                                                        *)
(***************************************************************************)

\* head_y > bound in f64, head_y in tenths.  A head that is exactly at the
\* bound after sums of a speed with no exact binary form (every speed but
\* 0.5 and 1.0) carries a rounding error of either sign.
ExceedsF64(head, speed, bound) ==
  IF head > 10 * bound THEN {TRUE}
  ELSE IF head < 10 * bound \/ speed \in {5, 10} THEN {FALSE}
  ELSE BOOLEAN

\* Mutant of MutationOutcomes: the phrase's character is written and the
\* cursor stays where it is.
MutationOutcomesCursorStuck(s, D) ==
  IF s.easter_egg # <<>>
    THEN LET egg == s.easter_egg[1]
         IN IF egg.char_index < Len(egg.word)
              THEN {[chars |-> SetAt(s.chars, place, At(egg.word, egg.char_index)),
                     easter_egg |-> s.easter_egg] :
                      place \in Draw(0, Max(Min(Len(s.chars), 3), 1), D.places)}
              ELSE {[chars |-> s.chars, easter_egg |-> s.easter_egg]}
    ELSE {[chars |-> SetAt(s.chars, idx, g), easter_egg |-> s.easter_egg] :
            idx \in Draw(0, Len(s.chars), D.idxs), g \in GlyphDraws(D.mglyphs)}

\* One mutation event: the trail buffer and the easter egg after it.
MutationOutcomes(s, D) ==
  IF s.easter_egg # <<>>
    THEN LET egg == s.easter_egg[1]
         IN IF egg.char_index < Len(egg.word)
              THEN {[chars |-> SetAt(s.chars, place, At(egg.word, egg.char_index)),
                     easter_egg |-> <<[egg EXCEPT !.char_index = @ + 1]>>] :
                      place \in Draw(0, Max(Min(Len(s.chars), 3), 1), D.places)}
              ELSE {[chars |-> s.chars, easter_egg |-> s.easter_egg]}
    ELSE {[chars |-> SetAt(s.chars, idx, g), easter_egg |-> s.easter_egg] :
            idx \in Draw(0, Len(s.chars), D.idxs), g \in GlyphDraws(D.mglyphs)}

\* Mutant of AdvanceStream: the head moves by one cell, whatever the speed.
AdvanceStreamByOne(s, h, t, D) ==
  LET head == s.head_y + 10
      mc == SatSub(s.mutate_counter, 1)
      muts == IF mc = 0
                THEN {[chars |-> mo.chars, easter_egg |-> mo.easter_egg,
                       mutate_counter |-> m] :
                        mo \in MutationOutcomes(s, D), m \in MutateDraws(D)}
                ELSE {[chars |-> s.chars, easter_egg |-> s.easter_egg,
                       mutate_counter |-> mc]}
  IN {Mark([s EXCEPT !.head_y = head,
                     !.chars = m.chars,
                     !.easter_egg = m.easter_egg,
                     !.mutate_counter = m.mutate_counter,
                     !.active = IF off THEN FALSE ELSE @], t, TRUE) :
        m \in muts, off \in ExceedsF64(head, s.speed, h + s.length + 5)}

\* Mutant of AdvanceStream: the stream is marked inactive without the margin
\* of 5, once head_y > height + length.
AdvanceStreamNoMargin(s, h, t, D) ==
  LET head == s.head_y + s.speed
      mc == SatSub(s.mutate_counter, 1)
      muts == IF mc = 0
                THEN {[chars |-> mo.chars, easter_egg |-> mo.easter_egg,
                       mutate_counter |-> m] :
                        mo \in MutationOutcomes(s, D), m \in MutateDraws(D)}
                ELSE {[chars |-> s.chars, easter_egg |-> s.easter_egg,
                       mutate_counter |-> mc]}
  IN {Mark([s EXCEPT !.head_y = head,
                     !.chars = m.chars,
                     !.easter_egg = m.easter_egg,
                     !.mutate_counter = m.mutate_counter,
                     !.active = IF off THEN FALSE ELSE @], t, TRUE) :
        m \in muts, off \in ExceedsF64(head, s.speed, h + s.length)}

\* The body of "for stream in &mut self.streams" for one stream; t is the
\* tick counter after its increment.
AdvanceStream(s, h, t, D) ==
  LET head == s.head_y + s.speed
      mc == SatSub(s.mutate_counter, 1)
      muts == IF mc = 0
                THEN {[chars |-> mo.chars, easter_egg |-> mo.easter_egg,
                       mutate_counter |-> m] :
                        mo \in MutationOutcomes(s, D), m \in MutateDraws(D)}
                ELSE {[chars |-> s.chars, easter_egg |-> s.easter_egg,
                       mutate_counter |-> mc]}
  IN {Mark([s EXCEPT !.head_y = head,
                     !.chars = m.chars,
                     !.easter_egg = m.easter_egg,
                     !.mutate_counter = m.mutate_counter,
                     !.active = IF off THEN FALSE ELSE @], t, TRUE) :
        m \in muts, off \in ExceedsF64(head, s.speed, h + s.length + 5)}

\* The loop over all streams.
RECURSIVE AdvanceStreams(_, _, _, _)
AdvanceStreams(ss, h, t, D) ==
  IF ss = <<>> THEN {<<>>}
  ELSE {<<x>> \o rest : x \in AdvanceStream(Head(ss), h, t, D),
                        rest \in AdvanceStreams(Tail(ss), h, t, D)}

IsActive(s) == s.active

IsInactive(s) == ~s.active

\* self.streams.retain(|s| s.active)
RemoveDead(ss) == SelectSeq(ss, IsActive)

\* "Occasionally spawn extra streams": 8%, on a column drawn from 0..width,
\* an empty range when width = 0.
ExtraSpawn(ss, w, h, D) ==
  (IF FALSE \in Chance(8, D) THEN {[streams |-> ss, ok |-> TRUE]} ELSE {}) \cup
  (IF TRUE \notin Chance(8, D) THEN {}
   ELSE IF EmptyRange(0, w) THEN {[streams |-> ss, ok |-> FALSE]}
   ELSE IF Len(ss) >= D.cap THEN {}
   ELSE {[streams |-> Append(ss, n), ok |-> TRUE] :
           n \in UNION {SpawnStream(col, FALSE, h, D) : col \in Draw(0, w, D.xcols)}})

\* Mutant of FlashFade: the Medium stage is skipped, Bright turns into Dim.
FlashFadeSkipsMedium(fl) ==
  IF fl = <<>> THEN fl
  ELSE LET f == fl[1]
           left == SatSub(f.ticks_remaining, 1)
           g == IF left # 0 THEN [f EXCEPT !.ticks_remaining = left]
                ELSE IF f.fade_stage = 0
                       THEN [f EXCEPT !.fade_stage = 2, !.ticks_remaining = 6]
                ELSE [f EXCEPT !.ticks_remaining = left]
       IN IF g.fade_stage >= 2 /\ g.ticks_remaining = 0 THEN <<>> ELSE <<g>>

\* The fade countdown and the removal of a message that spent its Dim stage.
FlashFade(fl) ==
  IF fl = <<>> THEN fl
  ELSE LET f == fl[1]
           left == SatSub(f.ticks_remaining, 1)
           g == IF left # 0 THEN [f EXCEPT !.ticks_remaining = left]
                ELSE IF f.fade_stage = 0
                       THEN [f EXCEPT !.fade_stage = 1, !.ticks_remaining = 8]
                ELSE IF f.fade_stage = 1
                       THEN [f EXCEPT !.fade_stage = 2, !.ticks_remaining = 6]
                ELSE [f EXCEPT !.ticks_remaining = left]
       IN IF g.fade_stage >= 2 /\ g.ticks_remaining = 0 THEN <<>> ELSE <<g>>

\* Mutant of FlashTrigger: the trigger does not ask whether a message is set.
FlashTriggerUnguarded(fl, w, h, D) ==
  LET fires == {r < 1 : r \in Draw(0, 800, D.flash)}
  IN
  (IF FALSE \in fires THEN {[flash |-> fl, created |-> FALSE]} ELSE {}) \cup
  (IF TRUE \notin fires THEN {}
   ELSE UNION {
     LET text == At(EASTER_EGGS, e)
         text_len == Len(text)
     IN IF w > text_len + 2
          THEN {[flash |-> <<[text |-> text, row |-> row, start_col |-> start_col,
                              ticks_remaining |-> 15, fade_stage |-> 0]>>,
                 created |-> TRUE] :
                  start_col \in Draw(0, w - text_len, D.cols),
                  row \in Draw(2, Max(SatSub(h, 2), 3), D.rows)}
          ELSE {[flash |-> fl, created |-> FALSE]} :
     e \in Draw(0, Len(EASTER_EGGS), D.texts)})

\* "Small chance to trigger a new flash message": 1 in 800 when none is set.
FlashTrigger(fl, w, h, D) ==
  LET fires == {r < 1 : r \in Draw(0, 800, D.flash)}
  IN
  (IF fl # <<>> \/ FALSE \in fires THEN {[flash |-> fl, created |-> FALSE]} ELSE {}) \cup
  (IF fl # <<>> \/ TRUE \notin fires THEN {}
   ELSE UNION {
     LET text == At(EASTER_EGGS, e)
         text_len == Len(text)
     IN IF w > text_len + 2
          THEN {[flash |-> <<[text |-> text, row |-> row, start_col |-> start_col,
                              ticks_remaining |-> 15, fade_stage |-> 0]>>,
                 created |-> TRUE] :
                  start_col \in Draw(0, w - text_len, D.cols),
                  row \in Draw(2, Max(SatSub(h, 2), 3), D.rows)}
          ELSE {[flash |-> fl, created |-> FALSE]} :
     e \in Draw(0, Len(EASTER_EGGS), D.texts)})

\* History: the message a tick created carries the number t of that tick.
Born(tr, t) ==
  IF tr.created
    THEN LET f == tr.flash[1]
         IN <<[text |-> f.text, row |-> f.row, start_col |-> f.start_col,
               ticks_remaining |-> f.ticks_remaining, fade_stage |-> f.fade_stage,
               born |-> t]>>
    ELSE tr.flash

\* The states tick can leave: ok = FALSE is the panic of the extra spawn,
\* which comes before the flash logic.  removed, faded, expired and created
\* are history.
TickOutcomes(ss, fl, w, h, t, D) ==
  UNION {
    UNION {
      {IF ex.ok
         THEN [streams |-> ex.streams, flash_message |-> Born(tr, t + 1), ok |-> TRUE,
               removed |-> SelectSeq(adv, IsInactive), faded |-> FlashFade(fl),
               expired |-> fl # <<>> /\ FlashFade(fl) = <<>>,
               created |-> tr.created,
               extra |-> Len(ex.streams) > Len(re.streams)]
         ELSE [streams |-> ex.streams, flash_message |-> fl, ok |-> FALSE,
               removed |-> SelectSeq(adv, IsInactive), faded |-> fl,
               expired |-> FALSE, created |-> FALSE, extra |-> FALSE] :
         ex \in ExtraSpawn(re.streams, w, h, D),
         tr \in FlashTrigger(FlashFade(fl), w, h, D)} :
      re \in Respawn(RemoveDead(adv), w, h, t + 1, D)} :
    adv \in AdvanceStreams(ss, h, t + 1, D)}

(***************************************************************************)
(* MatrixRain::resize                                                      *)
(***************************************************************************)

\* Mutant of DropOffScreen: the comparison is off by one (s.col <= width).
DropOffScreenInclusive(ss, w) ==
  LET OnScreen(s) == s.col <= w IN SelectSeq(ss, OnScreen)

\* self.streams.retain(|s| s.col < width)
DropOffScreen(ss, w) ==
  LET OnScreen(s) == s.col < w IN SelectSeq(ss, OnScreen)

\* Mutant of ClampLengths: the bound forgets max(8) and clamps to
\* height.min(40).
ClampLengthsToHeight(ss, h) ==
  [i \in 1..Len(ss) |->
     IF ss[i].length > Min(h, 40) THEN [ss[i] EXCEPT !.length = Min(h, 40)] ELSE ss[i]]

\* "Clamp trail lengths so they don't wildly exceed the new height"
ClampLengths(ss, h) ==
  [i \in 1..Len(ss) |->
     IF ss[i].length > Clamp(h) THEN [ss[i] EXCEPT !.length = Clamp(h)] ELSE ss[i]]

\* "Kill flash message if it no longer fits"
KillFlash(fl, w, h) ==
  IF fl # <<>> /\ (fl[1].row >= h \/ fl[1].start_col + Len(fl[1].text) > w)
    THEN <<>> ELSE fl

\* The states resize(w, h) can leave; ok = FALSE is the panic of
\* populate_streams at height 0.
ResizeOutcomes(ss, fl, w, h, t, D) ==
  LET kept == ClampLengths(DropOffScreen(ss, w), h)
      marked == [i \in 1..Len(kept) |-> Mark(kept[i], t, FALSE)]
      OffScreen(s) == ~(s.col < w)
  IN {[streams |-> o.streams, flash_message |-> KillFlash(fl, w, h),
       ok |-> o.ok, removed |-> SelectSeq(ss, OffScreen)] :
        o \in PopulateStreams(marked, w, h, t, D)}

(***************************************************************************)
(* Widget::render for &MatrixRain.  A write is [x, y, ch, fg]: the cell,   *)
(* relative to the area's corner, the glyph set (<<>> when only the color  *)
(* is set) and the foreground color.                                       *)
(***************************************************************************)

GreenRoundsDown ==
  { <<4, 3>>, <<4, 4>>, <<5, 4>>, <<5, 5>>, <<6, 6>>, <<7, 7>>, <<8, 6>>, <<8, 7>>,
    <<8, 8>>, <<9, 9>>, <<10, 8>>, <<10, 9>>, <<10, 10>>, <<11, 11>>, <<12, 9>>, <<12, 12>>,
    <<13, 13>>, <<14, 14>>, <<15, 12>>, <<15, 15>>, <<16, 7>>, <<16, 11>>, <<16, 12>>, <<16, 14>>,
    <<16, 16>>, <<17, 17>>, <<18, 18>>, <<19, 19>>, <<20, 9>>, <<20, 11>>, <<20, 15>>, <<20, 16>>,
    <<20, 17>>, <<20, 18>>, <<20, 20>>, <<21, 21>>, <<22, 22>>, <<23, 23>>, <<24, 18>>, <<24, 21>>,
    <<24, 24>>, <<25, 20>>, <<25, 25>>, <<26, 26>>, <<27, 27>>, <<28, 21>>, <<28, 28>>, <<29, 29>>,
    <<30, 24>>, <<30, 27>>, <<30, 30>>, <<31, 31>>, <<32, 14>>, <<32, 17>>, <<32, 19>>, <<32, 22>>,
    <<32, 23>>, <<32, 24>>, <<32, 27>>, <<32, 28>>, <<32, 29>>, <<32, 31>>, <<32, 32>>, <<33, 33>>,
    <<34, 34>>, <<35, 28>>, <<35, 35>>, <<36, 27>>, <<36, 36>>, <<37, 37>>, <<38, 38>>, <<39, 39>>,
    <<40, 17>>, <<40, 18>>, <<40, 21>>, <<40, 22>>, <<40, 30>>, <<40, 31>>, <<40, 32>>, <<40, 34>>,
    <<40, 35>>, <<40, 36>>, <<40, 37>>, <<40, 39>>, <<40, 40>> }

RedRoundsDown ==
  { <<5, 4>>, <<10, 8>>, <<10, 9>>, <<15, 12>>, <<20, 16>>, <<20, 18>>, <<25, 20>>, <<30, 24>>,
    <<30, 27>>, <<35, 28>>, <<40, 32>>, <<40, 36>> }

\* Mutant of Green: the channel is 200.0 * ratio, which grows with i.
GreenRising(i, len) == (200 * i) \div len

\* (200.0 * (1.0 - ratio * 0.8)) as u8 with ratio = i / length in f64: the
\* floor of the exact value, less 1 at the pairs <<length, i>> of
\* GreenRoundsDown, where the f64 product lands just below an integer.
Green(i, len) ==
  ((200 * len - 160 * i) \div len) - (IF <<len, i>> \in GreenRoundsDown THEN 1 ELSE 0)

\* (20.0 * (1.0 - ratio)) as u8, likewise
Red(i, len) ==
  ((20 * len - 20 * i) \div len) - (IF <<len, i>> \in RedRoundsDown THEN 1 ELSE 0)

\* The color of the trail cell at offset i
TrailColor(i, len) ==
  IF i = 0 THEN <<220, 255, 220>>
  ELSE IF i <= 2 THEN <<0, 255, 65>>
  ELSE <<Red(i, len), Green(i, len), 0>>

\* The glyphs the head can show: a fresh one when random_range(0..3) == 0,
\* otherwise stream.chars[0].
HeadGlyphs(s, D) ==
  LET flickers == {r = 0 : r \in Draw(0, 3, D.flicker)}
  IN (IF FALSE \in flickers THEN {At(s.chars, 0)} ELSE {}) \cup
     (IF TRUE \in flickers THEN GlyphDraws(D.fglyphs) ELSE {})

\* Mutant of StreamCells: the rows below the area are not skipped (the test
\* y >= area.height is missing).
StreamCellsNoRowSkip(s, aw, ah, head_ch) ==
  IF s.col >= aw THEN <<>>
  ELSE LET head == TruncToInt(s.head_y)
           lo == 0
           hi == Min(s.length, head)
       IN [k \in 1..(hi - lo + 1) |->
             LET i == lo + k - 1
             IN [x |-> s.col,
                 y |-> head - i,
                 ch |-> <<IF i = 0 THEN head_ch ELSE At(s.chars, i % Len(s.chars))>>,
                 fg |-> TrailColor(i, s.length)]]

\* Mutant of StreamCells: a stream whose column is outside the area is not
\* skipped (the test col >= area.width is missing).
StreamCellsNoColumnSkip(s, aw, ah, head_ch) ==
  LET head == TruncToInt(s.head_y)
      lo == Max(0, head - ah + 1)
      hi == Min(s.length, head)
  IN [k \in 1..(hi - lo + 1) |->
        LET i == lo + k - 1
        IN [x |-> s.col,
            y |-> head - i,
            ch |-> <<IF i = 0 THEN head_ch ELSE At(s.chars, i % Len(s.chars))>>,
            fg |-> TrailColor(i, s.length)]]

\* The writes of one stream, offsets ascending, given its head glyph: the
\* offsets i in 0..=length with 0 <= head - i < area.height.
StreamCells(s, aw, ah, head_ch) ==
  IF s.col >= aw THEN <<>>
  ELSE LET head == TruncToInt(s.head_y)
           lo == Max(0, head - ah + 1)
           hi == Min(s.length, head)
       IN [k \in 1..(hi - lo + 1) |->
             LET i == lo + k - 1
             IN [x |-> s.col,
                 y |-> head - i,
                 ch |-> <<IF i = 0 THEN head_ch ELSE At(s.chars, i % Len(s.chars))>>,
                 fg |-> TrailColor(i, s.length)]]

\* "Render each stream"
RECURSIVE RenderStreams(_, _, _, _)
RenderStreams(ss, aw, ah, D) ==
  IF Len(ss) = 0 THEN {<<>>}
  ELSE {StreamCells(Head(ss), aw, ah, g) \o rest :
          g \in HeadGlyphs(Head(ss), D),
          rest \in RenderStreams(Tail(ss), aw, ah, D)}

FlashColor(fade_stage) ==
  IF fade_stage = 0 THEN <<180, 255, 180>>
  ELSE IF fade_stage = 1 THEN <<80, 180, 80>>
  ELSE <<30, 90, 30>>

\* "Render flash message on top": the characters whose column is inside
\* the area, when the row is.
FlashCells(fl, aw, ah) ==
  IF fl = <<>> THEN <<>>
  ELSE LET flash == fl[1]
           n == IF flash.row < ah
                  THEN Max(0, Min(Len(flash.text), aw - flash.start_col))
                  ELSE 0
       IN [k \in 1..n |->
             [x |-> flash.start_col + (k - 1),
              y |-> flash.row,
              ch |-> <<flash.text[k]>>,
              fg |-> FlashColor(flash.fade_stage)]]

\* The cells of one glitch run, those with col < area.width
GlitchCells(glitch_row, glitch_start, glitch_len, aw) ==
  [k \in 1..Max(0, Min(glitch_len, aw - glitch_start)) |->
     [x |-> glitch_start + (k - 1), y |-> glitch_row, ch |-> <<>>,
      fg |-> <<255, 255, 255>>]]

\* "glitch effect": 1 in 500; each of its three draws panics on an empty
\* range.
GlitchOutcomes(aw, ah, D) ==
  LET fires == {r = 0 : r \in Draw(0, 500, D.glitch)}
  IN (IF FALSE \in fires THEN {[cells |-> <<>>, ok |-> TRUE]} ELSE {}) \cup
     (IF TRUE \notin fires THEN {}
      ELSE IF EmptyRange(0, ah) \/ EmptyRange(3, Min(aw, 20))
             THEN {[cells |-> <<>>, ok |-> FALSE]}
      ELSE UNION {
             IF EmptyRange(0, SatSub(aw, glitch_len))
               THEN {[cells |-> <<>>, ok |-> FALSE]}
               ELSE {[cells |-> GlitchCells(glitch_row, glitch_start, glitch_len, aw),
                      ok |-> TRUE] :
                       glitch_row \in Draw(0, ah, D.grows),
                       glitch_start \in Draw(0, SatSub(aw, glitch_len), D.gstarts)} :
             glitch_len \in Draw(3, Min(aw, 20), D.glens)})

\* What render(area, buf) writes, for an area of aw by ah cells; ok = FALSE
\* is a panic of the glitch, after the writes before it.
RenderOutcomes(ss, fl, aw, ah, D) ==
  {[cells |-> sc \o FlashCells(fl, aw, ah) \o g.cells, ok |-> g.ok] :
     sc \in RenderStreams(ss, aw, ah, D), g \in GlitchOutcomes(aw, ah, D)}

(***************************************************************************)
(* Actions                                                                 *)
(***************************************************************************)

\* No call yet; the fields past op are history of the latest call: the area
\* of a render, the streams a tick or a resize removed, the flash message
\* after a tick's fade step, whether that step removed a message that had
\* faded out, whether the tick created a message, and whether its extra
\* spawn pushed a stream.
NoCall == [op |-> "none", aw |-> 0, ah |-> 0, removed |-> <<>>,
           faded |-> <<>>, expired |-> FALSE, created |-> FALSE,
           extra |-> FALSE]

Init ==
  /\ pc = "uninit"
  /\ streams = <<>>
  /\ width = 0
  /\ height = 0
  /\ tick = 0
  /\ flash_message = <<>>
  /\ written = <<>>
  /\ last = NoCall

\* MatrixRain::new(w, h)
New(w, h, D) ==
  /\ pc = "uninit"
  /\ \E o \in PopulateStreams(<<>>, w, h, 0, D) :
       /\ streams' = o.streams
       /\ pc' = IF o.ok THEN "running" ELSE "panicked"
  /\ width' = w
  /\ height' = h
  /\ tick' = 0
  /\ flash_message' = <<>>
  /\ written' = <<>>
  /\ last' = [NoCall EXCEPT !.op = "new"]

\* rain.tick()
Tick(D) ==
  /\ pc = "running"
  /\ tick < D.ticks
  /\ \E o \in TickOutcomes(streams, flash_message, width, height, tick, D) :
       /\ streams' = o.streams
       /\ flash_message' = o.flash_message
       /\ pc' = IF o.ok THEN "running" ELSE "panicked"
       /\ last' = [NoCall EXCEPT !.op = "tick", !.removed = o.removed,
                                 !.faded = o.faded, !.expired = o.expired,
                                 !.created = o.created, !.extra = o.extra]
  /\ tick' = tick + 1
  /\ written' = <<>>
  /\ UNCHANGED <<width, height>>

\* rain.resize(w, h)
Resize(w, h, D) ==
  /\ pc = "running"
  /\ \E o \in ResizeOutcomes(streams, flash_message, w, h, tick, D) :
       /\ streams' = o.streams
       /\ flash_message' = o.flash_message
       /\ pc' = IF o.ok THEN "running" ELSE "panicked"
       /\ last' = [NoCall EXCEPT !.op = "resize", !.removed = o.removed]
  /\ width' = w
  /\ height' = h
  /\ written' = <<>>
  /\ UNCHANGED tick

\* Mutant of Render: the glyph drawn for the head of the first stream is
\* stored in its trail buffer.
RenderStoresFlicker(aw, ah, D) ==
  /\ pc = "running"
  /\ \E o \in RenderOutcomes(streams, flash_message, aw, ah, D) :
       /\ written' = o.cells
       /\ pc' = IF o.ok THEN "running" ELSE "panicked"
  /\ last' = [NoCall EXCEPT !.op = "render", !.aw = aw, !.ah = ah]
  /\ IF streams = <<>> THEN streams' = streams
     ELSE \E g \in HeadGlyphs(streams[1], D) :
            streams' = <<[streams[1] EXCEPT !.chars = SetAt(@, 0, g)]>> \o Tail(streams)
  /\ UNCHANGED <<width, height, tick, flash_message>>

\* frame.render_widget(&rain, area) with an area of aw by ah cells
Render(aw, ah, D) ==
  /\ pc = "running"
  /\ \E o \in RenderOutcomes(streams, flash_message, aw, ah, D) :
       /\ written' = o.cells
       /\ pc' = IF o.ok THEN "running" ELSE "panicked"
  /\ last' = [NoCall EXCEPT !.op = "render", !.aw = aw, !.ah = ah]
  /\ UNCHANGED rain

\* The areas a caller passes: the engine's size, less the shrinks of D.
Areas(n, D) == {n - d : d \in {d \in D.shrink : d <= n}}

(***************************************************************************)
(* Specifications                                                          *)
(***************************************************************************)

\* The draws of Spec: small grids, every call, resizes between all sizes.
Draws ==
  [widths |-> {0, 1, 2}, heights |-> {0, 9},
   ticks |-> MaxTick, cap |-> MaxStreams,
   pct |-> {0, 99}, lens |-> {4, 9}, speeds |-> {12},
   heads |-> {0}, glyphs |-> {0}, mglyphs |-> {56}, fglyphs |-> {0, 56},
   eggs |-> {},
   mutates |-> {3}, places |-> {0, 2}, idxs |-> {0}, xcols |-> {0, 1},
   flash |-> {0, 799}, texts |-> {31}, cols |-> {0, 2}, rows |-> {2},
   flicker |-> {0, 2}, glitch |-> {0, 499}, grows |-> {0}, gstarts |-> {0},
   glens |-> {3}, shrink |-> {0}]

Next ==
  \/ \E w \in Draws.widths, h \in Draws.heights : New(w, h, Draws)
  \/ Tick(Draws)
  \/ \E w \in Draws.widths, h \in Draws.heights : Resize(w, h, Draws)
  \/ \E aw \in Areas(width, Draws), ah \in Areas(height, Draws) : Render(aw, ah, Draws)

Spec == Init /\ [][Next]_vars

\* The draws of SpecFall: one column and no resize, long enough for a
\* stream to fall off the grid; an exact speed (1.0) and an inexact one.
DrawsFall ==
  [Draws EXCEPT !.widths = {1}, !.heights = {1, 5}, !.ticks = MaxTickFall,
                !.lens = {4, 8}, !.speeds = {10, 12}, !.heads = {-50, -10, 0}]

NextFall ==
  \/ \E w \in DrawsFall.widths, h \in DrawsFall.heights : New(w, h, DrawsFall)
  \/ Tick(DrawsFall)

SpecFall == Init /\ [][NextFall]_vars

\* The draws of SpecPaint: grids wide enough for a flash message and the
\* glitch, rendered in full, with several glitch rows and starts.
DrawsPaint ==
  [Draws EXCEPT !.widths = {4, 5}, !.heights = {1, 3}, !.ticks = MaxTickPaint,
                !.cap = MaxStreamsPaint, !.lens = {4}, !.xcols = {0, 4},
                !.grows = {0, 2}, !.gstarts = {0, 1}]

NextPaint ==
  \/ \E w \in DrawsPaint.widths, h \in DrawsPaint.heights : New(w, h, DrawsPaint)
  \/ Tick(DrawsPaint)
  \/ \E w \in DrawsPaint.widths, h \in DrawsPaint.heights : Resize(w, h, DrawsPaint)
  \/ \E aw \in Areas(width, DrawsPaint), ah \in Areas(height, DrawsPaint) :
       Render(aw, ah, DrawsPaint)

SpecPaint == Init /\ [][NextPaint]_vars

\* The draws of SpecClip: the grids of SpecPaint, rendered onto an area that
\* is the grid or one column or one row short of it; the head does not
\* flicker.
DrawsClip ==
  [Draws EXCEPT !.widths = {4, 5}, !.heights = {1, 3}, !.ticks = MaxTickPaint,
                !.cap = MaxStreamsPaint, !.lens = {4}, !.xcols = {0, 4},
                !.flicker = {2}, !.shrink = {0, 1}]

NextClip ==
  \/ \E w \in DrawsClip.widths, h \in DrawsClip.heights : New(w, h, DrawsClip)
  \/ Tick(DrawsClip)
  \/ \E w \in DrawsClip.widths, h \in DrawsClip.heights : Resize(w, h, DrawsClip)
  \/ \E aw \in Areas(width, DrawsClip), ah \in Areas(height, DrawsClip) :
       Render(aw, ah, DrawsClip)

SpecClip == Init /\ [][NextClip]_vars

\* The draws of SpecFlash: no stream is ever spawned (every percent draw
\* misses), and the run is long enough for a message to fade out.
DrawsFlash ==
  [Draws EXCEPT !.widths = {5, 7}, !.heights = {0, 2, 3, 6}, !.ticks = MaxTickFlash,
                !.pct = {99}, !.texts = {10, 31}, !.rows = {2, 3}]

NextFlash ==
  \/ \E w \in DrawsFlash.widths, h \in DrawsFlash.heights : New(w, h, DrawsFlash)
  \/ Tick(DrawsFlash)
  \/ \E w \in DrawsFlash.widths, h \in DrawsFlash.heights : Resize(w, h, DrawsFlash)
  \/ \E aw \in Areas(width, DrawsFlash), ah \in Areas(height, DrawsFlash) :
       Render(aw, ah, DrawsFlash)

SpecFlash == Init /\ [][NextFlash]_vars

\* The draws of SpecFade: one column of height 40 and one stream of any
\* trail length 4..40 and speed 1.0, so that a run of ticks shows every
\* trail offset of every length; the glitch stays off (it needs width > 3).
DrawsFade ==
  [Draws EXCEPT !.widths = {1}, !.heights = {40}, !.ticks = MaxTickFade,
                !.cap = 1, !.lens = 4..40, !.speeds = {10}, !.xcols = {0},
                !.flicker = {2}, !.glitch = {499}]

NextFade ==
  \/ \E w \in DrawsFade.widths, h \in DrawsFade.heights : New(w, h, DrawsFade)
  \/ Tick(DrawsFade)
  \/ \E aw \in Areas(width, DrawsFade), ah \in Areas(height, DrawsFade) :
       Render(aw, ah, DrawsFade)

SpecFade == Init /\ [][NextFade]_vars

\* The draws of SpecEgg: one column, one stream that may carry the phrase
\* ZION or 42, and a mutation event every third or fourth tick.
DrawsEgg ==
  [Draws EXCEPT !.widths = {1}, !.heights = {9}, !.ticks = MaxTickEgg,
                !.cap = 1, !.lens = {4}, !.eggs = {10, 31}, !.mutates = {3, 4},
                !.xcols = {0}]

NextEgg ==
  \/ \E w \in DrawsEgg.widths, h \in DrawsEgg.heights : New(w, h, DrawsEgg)
  \/ Tick(DrawsEgg)

SpecEgg == Init /\ [][NextEgg]_vars

\* The draws of SpecMove: the slowest and the fastest speed, starts above
\* and inside the grid, ticks and resizes that drop and keep streams; the
\* percent draw 10 hits for populate (70) and respawn (15), not for the
\* extra spawn (8), so a column holds one stream at most.
DrawsMove ==
  [Draws EXCEPT !.widths = {1, 2}, !.heights = {1, 9}, !.ticks = MaxTickMove,
                !.pct = {10, 99}, !.lens = {4}, !.speeds = {3, 12},
                !.heads = {-5, 9}]

NextMove ==
  \/ \E w \in DrawsMove.widths, h \in DrawsMove.heights : New(w, h, DrawsMove)
  \/ Tick(DrawsMove)
  \/ \E w \in DrawsMove.widths, h \in DrawsMove.heights : Resize(w, h, DrawsMove)

SpecMove == Init /\ [][NextMove]_vars

(***************************************************************************)
(* Properties                                                              *)
(***************************************************************************)

\* The writes of a call, as a set
Writes == {written[k] : k \in 1..Len(written)}

InArea(c, aw, ah) == 0 <= c.x /\ c.x < aw /\ 0 <= c.y /\ c.y < ah

HeadColor == <<220, 255, 220>>

\* The subsequence of v at the indices of keep, in order
RECURSIVE Pick(_, _)
Pick(v, keep) ==
  IF v = <<>> THEN <<>>
  ELSE LET rest == Pick(Tail(v), {i - 1 : i \in keep \ {1}})
       IN IF 1 \in keep THEN <<Head(v)>> \o rest ELSE rest

\* A stream without its history field
Fields(s) ==
  [col |-> s.col, head_y |-> s.head_y, speed |-> s.speed, length |-> s.length,
   chars |-> s.chars, active |-> s.active, easter_egg |-> s.easter_egg,
   mutate_counter |-> s.mutate_counter]

-----------------------------------------------------------------------------
\* C1: a render onto a grid of the engine's current width and height writes
\* only cells (x, y) with 0 <= x < width and 0 <= y < height, be they stream
\* cells, flash-message cells or glitch cells.
C1_BoundsSafety ==
  (last.op = "render" /\ last.aw = width /\ last.ah = height)
    => \A c \in Writes : InArea(c, width, height)

\* One render of the full grid that wrote a stream head, a flash-message
\* cell and a glitch cell.
C1_Witness ==
  /\ last.op = "render" /\ last.aw = width /\ last.ah = height
  /\ \E c \in Writes : c.fg = HeadColor
  /\ \E c \in Writes : c.fg = FlashColor(0) /\ c.ch = <<"4">>
  /\ \E c \in Writes : c.ch = <<>>

-----------------------------------------------------------------------------
\* C2 (as claimed): initialize(width, height) with width = 0 or height = 0
\* completes without an error and leaves no stream and no flash message.
C2_DegenerateInit ==
  (last.op = "new" /\ (width = 0 \/ height = 0))
    => (pc = "running" /\ streams = <<>> /\ flash_message = <<>>)

-----------------------------------------------------------------------------
\* C3 (as claimed): every tick and every resize after initialize completes
\* without an error, for every width >= 0 and height >= 0.
C3_NoFallibleCall ==
  last.op \in {"tick", "resize"} => pc # "panicked"

-----------------------------------------------------------------------------
\* The number ceil((height + L + 5) / s) of the claim
RetireTick(s, h) == (10 * (h + s.length + 5) + s.speed - 1) \div s.speed

\* C4: with no resize, a stream whose head was at 0 is in the state after
\* every tick before number N - 1 and gone after tick N + 1, ticks counted
\* from that moment and N = ceil((height + L + 5) / s).  A tick removes a
\* stream in the first tick that leaves its head above height + L + 5 (at
\* the bound itself when rounding of an inexact speed puts it above), and
\* keeps none whose head is above it.
C4_Retirement ==
  LET T(s) == 10 * (height + s.length + 5)
  IN /\ \A i \in 1..Len(streams) :
          LET s == streams[i]
          IN /\ s.head_y <= T(s)
             /\ s.zeroAt >= 0 => tick - s.zeroAt <= RetireTick(s, height)
     /\ last.op = "tick" =>
          \A i \in 1..Len(last.removed) :
             LET s == last.removed[i]
             IN /\ s.head_y >= T(s)
                /\ s.speed \in {5, 10} => s.head_y > T(s)
                /\ s.head_y - s.speed <= T(s)
                /\ s.zeroAt >= 0 =>
                     /\ tick - s.zeroAt >= RetireTick(s, height) - 1
                     /\ tick - s.zeroAt <= RetireTick(s, height) + 1
                /\ (height = 5 /\ s.length = 4 /\ s.speed = 10) => s.head_y = 150

\* A tick that removed a stream whose head had been at 0: one of speed 1.0
\* in the grid of height 5 (the example), after 15 ticks.
C4_Witness ==
  /\ last.op = "tick"
  /\ \E i \in 1..Len(last.removed) :
       LET s == last.removed[i]
       IN s.zeroAt >= 0 /\ height = 5 /\ s.length = 4 /\ s.speed = 10
          /\ tick - s.zeroAt = 15

-----------------------------------------------------------------------------
\* C5 (as claimed): after initialize(W, H) and any number of ticks, every
\* stream's head_position is within [-H, H + 40 + 5].
C5_HeadRangeAsClaimed ==
  \A i \in 1..Len(streams) :
     /\ -(10 * height) <= streams[i].head_y
     /\ streams[i].head_y <= 10 * (height + 40 + 5)

\* C5 (amended): after initialize(W, H) and any number of ticks, every
\* stream's head_position is within [-max(H, clamp(H, 8, 40)), H + 40 + 5],
\* and at most H + trail_length + 5: a stream respawned by a tick starts at
\* -trail_length, which is below -H when H < trail_length.
C5_HeadRange ==
  \A i \in 1..Len(streams) :
     LET s == streams[i]
     IN /\ -(10 * Max(height, Clamp(height))) <= s.head_y
        /\ s.head_y <= 10 * (height + s.length + 5)
        /\ s.head_y <= 10 * (height + 40 + 5)

\* A stream respawned by a tick in the grid of height 5, its head at -8.
C5_Witness ==
  /\ height = 5 /\ last.op = "tick"
  /\ \E i \in 1..Len(streams) : streams[i].head_y = -80

-----------------------------------------------------------------------------
\* C6: every stream's column c satisfies 0 <= c < width in every state, and
\* resize(w', h') removes exactly the streams whose column is >= w' and
\* keeps, in order, every stream whose column is < w'.
C6_ColumnRange ==
  [][/\ \A i \in 1..Len(streams') :
          0 <= streams'[i].col /\ streams'[i].col < width'
     /\ last'.op = "resize" =>
          LET Kept(s) == s.col < width'
              Dropped(s) == s.col >= width'
              kept == SelectSeq(streams, Kept)
          IN /\ last'.removed = SelectSeq(streams, Dropped)
             /\ Len(streams') >= Len(kept)
             /\ \A i \in 1..Len(kept) :
                  Fields(streams'[i]) =
                    [Fields(kept[i]) EXCEPT !.length = streams'[i].length]
             /\ \A i \in (Len(kept) + 1)..Len(streams') :
                  \A j \in 1..Len(kept) : streams'[i].col # kept[j].col]_vars

\* A resize that dropped a stream and kept another, one that had moved.
C6_Witness ==
  /\ last.op = "resize" /\ pc = "running"
  /\ last.removed # <<>>
  /\ \E i \in 1..Len(streams) : streams[i].head_y > 0

-----------------------------------------------------------------------------
\* C7: every stream's trail_length L satisfies 4 <= L <= clamp(height, 8, 40)
\* in every state; resize(w, h') lowers L to clamp(h', 8, 40) when L exceeds
\* it and leaves it otherwise; tick never changes the L of a stream.
C7_TrailLength ==
  [][/\ \A i \in 1..Len(streams') :
          4 <= streams'[i].length /\ streams'[i].length <= Clamp(height')
     /\ last'.op = "resize" =>
          LET Kept(s) == s.col < width'
              kept == SelectSeq(streams, Kept)
          IN \A i \in 1..Len(kept) :
               /\ i <= Len(streams')
               /\ streams'[i].length =
                    IF kept[i].length > Clamp(height') THEN Clamp(height')
                    ELSE kept[i].length
     /\ last'.op = "tick" =>
          \E keep \in SUBSET (1..Len(streams)) :
             LET old == Pick(streams, keep)
             IN /\ Len(old) + Len(last'.removed) = Len(streams)
                /\ Len(streams') >= Len(old)
                /\ \A i \in 1..Len(old) :
                     /\ streams'[i].col = old[i].col
                     /\ streams'[i].head_y = old[i].head_y + old[i].speed
                     /\ streams'[i].length = old[i].length]_vars

\* A stream of trail length 8 that has moved: no spawn of Spec draws 8, so
\* a resize lowered it from 9.
C7_Witness ==
  /\ pc = "running" /\ last.op = "tick"
  /\ \E i \in 1..Len(streams) : streams[i].length = 8 /\ streams[i].head_y > 0

-----------------------------------------------------------------------------
\* C8: at most one FlashMessage exists in every state; a tick creates one
\* only if none exists after that tick's fade and removal step; the text,
\* row and start_column of a message never change while it exists.
C8_FlashExclusive ==
  [][/\ Len(flash_message') <= 1
     /\ (last'.op = "tick" /\ last'.created) =>
          /\ last'.faded = <<>>
          /\ flash_message' # <<>>
     /\ (flash_message # <<>> /\ flash_message' # <<>>
         /\ ~(last'.op = "tick" /\ last'.created)) =>
          /\ flash_message'[1].text = flash_message[1].text
          /\ flash_message'[1].row = flash_message[1].row
          /\ flash_message'[1].start_col = flash_message[1].start_col]_vars

\* A tick that removed a faded message and created the next one: a message
\* takes 29 ticks to fade out.
C8_Witness ==
  /\ last.op = "tick" /\ last.expired /\ last.created
  /\ flash_message # <<>>

-----------------------------------------------------------------------------
\* C9: a render, whatever it draws for the head flicker and the glitch,
\* leaves the streams, the flash message, width, height and the tick counter
\* unchanged.
C9_RenderIsPure ==
  [][last'.op = "render" => UNCHANGED rain]_vars

\* A render whose head cell shows a flickered glyph, not the stored one.
C9_Witness ==
  /\ last.op = "render"
  /\ \E c \in Writes :
       /\ c.fg = HeadColor
       /\ \A i \in 1..Len(streams) : c.ch # <<At(streams[i].chars, 0)>>

-----------------------------------------------------------------------------
\* A render onto an area smaller than the engine's grid
SmallerArea == last.op = "render" /\ (last.aw < width \/ last.ah < height)

\* C10 (as claimed): a render onto a grid smaller than the engine's
\* dimensions is reported to the caller as an error.
C10_SmallGridReported == SmallerArea => pc = "panicked"

\* The writes of v that set a glyph: those of the streams and of the flash
\* message
Painted(v) == LET SetsGlyph(c) == c.ch # <<>> IN SelectSeq(v, SetsGlyph)

\* The writes of v that lie inside the area aw by ah
Clipped(v, aw, ah) == LET Inside(c) == InArea(c, aw, ah) IN SelectSeq(v, Inside)

\* C10 (amended): a render onto a grid smaller than the engine's dimensions
\* is not reported: it writes the stream and flash-message cells of a render
\* of the full grid that lie inside the smaller grid and silently skips the
\* others, it writes no cell outside the grid it was given, and it fails
\* only where the glitch fires on a grid of height 0 or width <= 3.
C10_SmallGridSkipped ==
  SmallerArea =>
    /\ \A c \in Writes : InArea(c, last.aw, last.ah)
    /\ pc = "panicked" => (last.ah = 0 \/ last.aw <= 3)
    /\ \E full \in RenderOutcomes(streams, flash_message, width, height, DrawsClip) :
         Painted(written) = Clipped(Painted(full.cells), last.aw, last.ah)

\* A completed render onto a smaller grid that skipped a stream (its column
\* is outside) and cut the flash message.
C10_Witness ==
  /\ SmallerArea /\ pc = "running"
  /\ \E i \in 1..Len(streams) :
       streams[i].col >= last.aw /\ streams[i].head_y >= 0
  /\ flash_message # <<>>
  /\ flash_message[1].start_col + Len(flash_message[1].text) > last.aw
  /\ \E c \in Writes : c.fg = FlashColor(0)

-----------------------------------------------------------------------------
\* floor(200 * (1 - 0.8 * i / L)), the green channel as the claim writes it
FloorGreen(i, len) == (200 * len - 160 * i) \div len

\* The trail offset of a written stream cell c of stream s
Offset(c, s) == TruncToInt(s.head_y) - c.y

\* A render of the one stream of SpecFade
FadeRender == last.op = "render" /\ Len(streams) = 1

\* C11 (as claimed): the green channel rendered at a trail offset i >= 3 is
\* floor(200 * (1 - 0.8 * i / L)), it does not grow with i and every channel
\* lies in [0, 255].
C11_FadeAsClaimed ==
  FadeRender =>
    \A c \in Writes :
       Offset(c, streams[1]) >= 3 =>
         c.fg[2] = FloorGreen(Offset(c, streams[1]), streams[1].length)

\* C11 (amended): for every trail length L in 4..40 and offset i with
\* 3 <= i < L the green channel rendered at offset i + 1 is <= the one at
\* offset i, and every rendered channel lies in [0, 255]; the green channel
\* is the f64 product cut to an integer, which is floor(200 * (1 - 0.8 * i /
\* L)) or one less (79 and 39, not 80 and 40, at offsets 3 and 4 of L = 4).
C11_Fade ==
  FadeRender =>
    LET s == streams[1]
    IN /\ \A c \in Writes :
            /\ \A k \in 1..3 : c.fg[k] \in 0..255
            /\ c.fg = TrailColor(Offset(c, s), s.length)
            /\ Offset(c, s) >= 3 =>
                 c.fg[2] \in {FloorGreen(Offset(c, s), s.length),
                              FloorGreen(Offset(c, s), s.length) - 1}
       /\ \A c, d \in Writes :
            (Offset(c, s) >= 3 /\ Offset(d, s) = Offset(c, s) + 1)
              => d.fg[2] <= c.fg[2]

\* A render of a whole trail of length 4: green 79 at offset 3 and 39 at
\* offset 4, each one below the floor of the exact value.
C11_Witness ==
  /\ FadeRender /\ streams[1].length = 4
  /\ \E c, d \in Writes :
       /\ Offset(c, streams[1]) = 3 /\ c.fg[2] = 79
       /\ Offset(d, streams[1]) = 4 /\ d.fg[2] = 39

-----------------------------------------------------------------------------
\* C12 (as claimed): in every state with a flash message, row < height and
\* start_col + length(text) <= width, for every width and height, heights
\* 0, 1 and 2 included.
C12_FlashPlacement ==
  flash_message # <<>> =>
    /\ flash_message[1].row < height
    /\ flash_message[1].start_col + Len(flash_message[1].text) <= width

-----------------------------------------------------------------------------
\* The one stream of SpecEgg is in the state before and after the step, its
\* mutate_counter reaching zero in it
MutationEvent ==
  /\ last'.op = "tick"
  /\ Len(streams) = 1 /\ Len(streams') = 1
  /\ streams'[1].head_y = streams[1].head_y + streams[1].speed
  /\ streams[1].mutate_counter <= 1

\* The stream carries an easter egg whose cursor is at the end of its phrase
Exhausted(s) ==
  s.easter_egg # <<>> /\ s.easter_egg[1].char_index >= Len(s.easter_egg[1].word)

\* C13 (as claimed): a mutation event of a stream whose easter egg is
\* exhausted leaves the trail buffer the stream would get with no easter
\* egg: one slot overwritten with a palette glyph.
C13_ExhaustedEggMutates ==
  [][(MutationEvent /\ Exhausted(streams[1])) =>
       streams'[1].chars \in
         {m.chars : m \in MutationOutcomes([streams[1] EXCEPT !.easter_egg = <<>>],
                                           DrawsEgg)}]_vars

-----------------------------------------------------------------------------
\* The stage and countdown of a message after a ticks of fading
FadeAt(f, a) ==
  IF a <= 14 THEN f.fade_stage = 0 /\ f.ticks_remaining = 15 - a
  ELSE IF a <= 22 THEN f.fade_stage = 1 /\ f.ticks_remaining = 23 - a
  ELSE a <= 28 /\ f.fade_stage = 2 /\ f.ticks_remaining = 29 - a

\* C14: a flash message created at the end of tick t is Bright after ticks
\* t+1..t+14, Medium after ticks t+15..t+22, Dim after ticks t+23..t+28 and
\* absent after the fade step of tick t+29; fade_stage never decreases and
\* never skips a stage, and the fade step removes no Bright or Medium
\* message.
C14_FadeLifecycle ==
  [][/\ flash_message' # <<>> =>
          FadeAt(flash_message'[1], tick' - flash_message'[1].born)
     /\ (last'.op = "tick" /\ pc' = "running" /\ flash_message # <<>>) =>
          /\ last'.expired <=> tick' - flash_message[1].born = 29
          /\ last'.expired => flash_message[1].fade_stage = 2
          /\ last'.faded # <<>> =>
               /\ last'.faded[1].fade_stage >= flash_message[1].fade_stage
               /\ last'.faded[1].fade_stage <= flash_message[1].fade_stage + 1
               /\ last'.faded[1].born = flash_message[1].born]_vars

\* The tick that removes a message, the 29th after the one that created it,
\* and leaves none.
C14_Witness ==
  /\ last.op = "tick" /\ last.expired /\ ~last.created
  /\ flash_message = <<>> /\ tick = 30

-----------------------------------------------------------------------------
\* C15 (as claimed): a render completes for every grid size, width <= 3 and
\* height = 0 included, also when the glitch trigger fires, and the cells of
\* the glitch (those written with no glyph) lie in one row of the grid,
\* inside [0, width), and are set to white.
C15_GlitchCompletes ==
  (last.op = "render" /\ last.aw = width /\ last.ah = height) =>
    /\ pc = "running"
    /\ \A c \in Writes :
         c.ch = <<>> => (InArea(c, width, height) /\ c.fg = <<255, 255, 255>>)
    /\ \A c, d \in Writes : (c.ch = <<>> /\ d.ch = <<>>) => c.y = d.y

-----------------------------------------------------------------------------
\* The columns of the streams of v
Cols(v) == {v[i].col : i \in 1..Len(v)}

\* The streams of v are on pairwise different columns
OnePerColumn(v) == \A i, j \in 1..Len(v) : i # j => v[i].col # v[j].col

\* The last n streams of v
Added(v, n) == SubSeq(v, Len(v) - n + 1, Len(v))

\* C16: populate_streams (at new and at the end of resize) and the respawn
\* step of tick add at most one stream per column and only to columns that
\* hold no stream at that moment; right after new no two streams share a
\* column; in a tick only the extra spawn, the last stream pushed, can land
\* on a column that holds a stream.
C16_SpawnOnEmptyColumns ==
  [][/\ last'.op = "new" => OnePerColumn(streams')
     /\ last'.op = "resize" =>
          LET kept == Len(streams) - Len(last'.removed)
              new == Added(streams', Len(streams') - kept)
          IN /\ Len(streams') >= kept
             /\ OnePerColumn(new)
             /\ Cols(new) \cap Cols(SubSeq(streams', 1, kept)) = {}
     /\ last'.op = "tick" =>
          LET kept == Len(streams) - Len(last'.removed)
              extra == IF last'.extra THEN 1 ELSE 0
              new == SubSeq(streams', kept + 1, Len(streams') - extra)
          IN /\ Len(streams') >= kept + extra
             /\ OnePerColumn(new)
             /\ Cols(new) \cap Cols(SubSeq(streams', 1, kept)) = {}
             /\ \A i \in 1..Len(new) : new[i].head_y = -(10 * new[i].length)]_vars

\* A tick that respawned a stream on the empty column 1 and whose extra
\* spawn landed on column 1 as well.
C16_Witness ==
  /\ last.op = "tick" /\ last.extra /\ width = 2
  /\ Len(streams) = 2
  /\ streams[1].col = 1 /\ streams[2].col = 1
  /\ streams[1].head_y = -(10 * streams[1].length)

-----------------------------------------------------------------------------
\* Stream b is stream a moved by its speed: same column, same speed
Moved(a, b) ==
  b.col = a.col /\ b.speed = a.speed /\ b.head_y = a.head_y + a.speed

\* C17: a tick adds its speed to the head_y of every stream that was in the
\* state before it (those it then removes included) and does not advance a
\* stream it spawns; speed lies in [0.3, 1.2] and never changes; resize
\* changes neither head_y nor speed of the streams it keeps; so head_y only
\* grows.
C17_HeadMovement ==
  [][/\ \A i \in 1..Len(streams') : streams'[i].speed \in 3..12
     /\ last'.op = "tick" =>
          \E keep \in SUBSET (1..Len(streams)) :
             LET stay == Pick(streams, keep)
                 gone == Pick(streams, (1..Len(streams)) \ keep)
             IN /\ Len(gone) = Len(last'.removed)
                /\ Len(streams') >= Len(stay)
                /\ \A i \in 1..Len(stay) :
                     Moved(stay[i], streams'[i]) /\ streams'[i].head_y > stay[i].head_y
                /\ \A i \in 1..Len(gone) : Moved(gone[i], last'.removed[i])
                /\ \A i \in (Len(stay) + 1)..Len(streams') :
                     streams'[i].head_y = -(10 * streams'[i].length)
     /\ last'.op = "resize" =>
          LET Kept(s) == s.col < width'
              kept == SelectSeq(streams, Kept)
          IN /\ Len(streams') >= Len(kept)
             /\ \A i \in 1..Len(kept) :
                  /\ streams'[i].col = kept[i].col
                  /\ streams'[i].head_y = kept[i].head_y
                  /\ streams'[i].speed = kept[i].speed]_vars

\* A tick that removed a stream of speed 1.2 (started at 0.9, at 10.5 after
\* 8 ticks), moved one of speed 0.3 from its start -0.5 to 1.9 and spawned a
\* third, still at its start.
C17_Witness ==
  /\ last.op = "tick" /\ pc = "running" /\ tick = 8
  /\ Len(last.removed) = 1
  /\ last.removed[1].speed = 12 /\ last.removed[1].head_y = 105
  /\ Len(streams) = 2
  /\ streams[1].speed = 3 /\ streams[1].head_y = 19
  /\ streams[2].head_y = -(10 * streams[2].length)

-----------------------------------------------------------------------------
\* C18: every stream's trail buffer has at least trail length + 10 glyphs,
\* exactly that many at spawn; neither tick nor resize changes the length of
\* the buffer of a stream it keeps; so the buffer is never empty and, for
\* every trail offset i in 0..length, i mod buffer length = i: the index a
\* render uses never wraps.
C18_BufferSlack ==
  [][/\ \A i \in 1..Len(streams') :
          LET s == streams'[i]
          IN /\ Len(s.chars) >= s.length + 10
             /\ Len(s.chars) > 0
             /\ \A k \in 0..s.length : k % Len(s.chars) = k
     /\ last'.op = "new" =>
          \A i \in 1..Len(streams') :
             Len(streams'[i].chars) = streams'[i].length + 10
     /\ last'.op = "resize" =>
          LET Kept(s) == s.col < width'
              kept == SelectSeq(streams, Kept)
          IN /\ Len(streams') >= Len(kept)
             /\ \A i \in 1..Len(kept) :
                  Len(streams'[i].chars) = Len(kept[i].chars)
             /\ \A i \in (Len(kept) + 1)..Len(streams') :
                  Len(streams'[i].chars) = streams'[i].length + 10
     /\ last'.op = "tick" =>
          LET kept == Len(streams) - Len(last'.removed)
          IN /\ Len(streams') >= kept
             /\ \E keep \in SUBSET (1..Len(streams)) :
                  /\ Cardinality(keep) = kept
                  /\ \A i \in 1..kept :
                       /\ streams'[i].col = Pick(streams, keep)[i].col
                       /\ Len(streams'[i].chars) = Len(Pick(streams, keep)[i].chars)
             /\ \A i \in (kept + 1)..Len(streams') :
                  Len(streams'[i].chars) = streams'[i].length + 10
     /\ last'.op = "render" =>
          \A k \in 1..Len(written') :
             LET c == written'[k]
             IN (c.ch # <<>> /\ (c.fg[3] = 0 \/ c.fg = <<0, 255, 65>>)) =>
                  \E i \in 1..Len(streams) :
                     LET s == streams[i]
                         o == TruncToInt(s.head_y) - c.y
                     IN /\ s.col = c.x /\ o \in 1..s.length
                        /\ o < Len(s.chars)
                        /\ c.ch = <<At(s.chars, o)>>]_vars

\* A render of a stream whose trail a resize cut from 9 to 8 while its
\* buffer kept 19 glyphs: the cell at trail offset 3 shows the glyph of slot 3.
C18_Witness ==
  /\ last.op = "render" /\ pc = "running"
  /\ \E i \in 1..Len(streams) :
       LET s == streams[i]
       IN /\ s.length = 8 /\ Len(s.chars) = 19
          /\ \E c \in Writes :
               /\ c.x = s.col /\ TruncToInt(s.head_y) - c.y = 3
               /\ c.fg = TrailColor(3, 8)

-----------------------------------------------------------------------------
\* The one stream of SpecEgg is in the state before and after the tick
Survives ==
  /\ last'.op = "tick"
  /\ Len(streams) = 1 /\ Len(streams') = 1
  /\ streams'[1].head_y = streams[1].head_y + streams[1].speed

\* C19: the cursor of an easter egg starts at 0 and stays within
\* 0..length(phrase); a mutation event with cursor < length(phrase) moves it
\* by exactly 1 and writes the phrase's character at the old cursor into one
\* of the slots 0..2 of the trail buffer, changing no other slot; no other
\* step moves the cursor or changes the phrase.
C19_EggCursor ==
  [][/\ \A i \in 1..Len(streams') :
          streams'[i].easter_egg # <<>> =>
            LET egg == streams'[i].easter_egg[1]
            IN /\ 0 <= egg.char_index /\ egg.char_index <= Len(egg.word)
               /\ \E e \in 0..(Len(EASTER_EGGS) - 1) : egg.word = At(EASTER_EGGS, e)
               /\ (last'.op = "new" \/ streams'[i].head_y = -(10 * streams'[i].length))
                    => egg.char_index = 0
     /\ (Survives /\ streams[1].easter_egg = <<>>) => streams'[1].easter_egg = <<>>
     /\ (Survives /\ streams[1].easter_egg # <<>>) =>
          LET s == streams[1]
              egg == s.easter_egg[1]
          IN /\ streams'[1].easter_egg # <<>>
             /\ streams'[1].easter_egg[1].word = egg.word
             /\ IF s.mutate_counter <= 1 /\ egg.char_index < Len(egg.word)
                  THEN /\ streams'[1].easter_egg[1].char_index = egg.char_index + 1
                       /\ \E place \in 0..2 :
                            streams'[1].chars =
                              SetAt(s.chars, place, At(egg.word, egg.char_index))
                  ELSE /\ streams'[1].easter_egg[1].char_index = egg.char_index
                       /\ streams'[1].chars = s.chars]_vars

\* The tick of the fourth mutation event of a stream that carries ZION: the
\* cursor is at the end and the N is in slot 0 or 2.
C19_Witness ==
  /\ last.op = "tick" /\ Len(streams) = 1
  /\ streams[1].easter_egg # <<>>
  /\ streams[1].easter_egg[1].word = <<"Z", "I", "O", "N">>
  /\ streams[1].easter_egg[1].char_index = 4
  /\ \E place \in {0, 2} : At(streams[1].chars, place) = "N"
  /\ streams[1].mutate_counter \in {3, 4}

====
